---------------------------- MODULE Spec2Model ----------------------------
(***************************************************************************)
(* Deduplication and archival store of job-board-shared                    *)
(* (src/src/data/posted-jobs-manager-v2.js, class PostedJobsManagerV2),    *)
(* with the retry helper (src/src/utils/error-handler.js) and the          *)
(* subscription list (src/src/data/subscription-manager.js) beside it.     *)
(*                                                                         *)
(* Time is counted in ticks of 1/TicksPerDay day since 2024-01-01T00:00Z.  *)
(* A timestamp string (ISO 8601) is modelled by its tick; its calendar     *)
(* date (`split('T')[0]`) and its year-month (`slice(0, 7)`) are computed  *)
(* from the tick by DateOf and MonthOf.                                    *)
(*                                                                         *)
(* A file is a record [exists, bytes]; bytes is the sequence of units of   *)
(* the JSON text (an opening unit, one unit per element, a closing unit),  *)
(* so that a truncated or overwritten text is something JSON.parse can     *)
(* reject.                                                                 *)
(***************************************************************************)
EXTENDS Integers, Sequences, FiniteSets, TLC

VARIABLES
    now,                 \* Date.now(), in ticks
    envActive,           \* process.env.ACTIVE_WINDOW_DAYS
    envReopen,           \* process.env.REOPENING_WINDOW_DAYS
    data,                \* this.data of each manager process
    activeWindowDays,    \* this.activeWindowDays of each manager process
    reopeningWindowDays, \* this.reopeningWindowDays of each manager process
    postedJobsFile,      \* the file at postedJobsPath
    postedJobsTmp,       \* the file at postedJobsPath + '.tmp'
    archiveFiles,        \* month |-> the file archive/<month>.json
    archiveTmps,         \* month |-> the file archive/<month>.json.tmp
    pc,                  \* each process's position inside savePostedJobs
    frame,               \* each process's local variables inside savePostedJobs
    history,             \* every instance markAsPosted has created, in call order
    lastQuery,           \* the last hasBeenPosted call and what it returned
    lastSave,            \* what the last completed savePostedJobs did
    lastCrash,           \* the file a process was replacing when it last crashed
    returned,            \* the last markAsPosted or getStats call and its value
    retry,               \* the retryWithBackoff call in progress
    subscriptions,       \* this.subscriptions of the SubscriptionManager
    subscriptionsFile,   \* the file at subscriptionsPath
    lastCall             \* the last SubscriptionManager call and its value

vars == <<now, envActive, envReopen, data, activeWindowDays, reopeningWindowDays,
          postedJobsFile, postedJobsTmp, archiveFiles, archiveTmps, pc, frame,
          history, lastQuery, lastSave, lastCrash, returned,
          retry, subscriptions, subscriptionsFile, lastCall>>

(* the variables of the deduplication store, and those of the helpers next *)
(* to it (src/src/utils/error-handler.js, src/src/data/                    *)
(* subscription-manager.js)                                                *)
storeVars == <<now, envActive, envReopen, data, activeWindowDays,
               reopeningWindowDays, postedJobsFile, postedJobsTmp, archiveFiles,
               archiveTmps, pc, frame, history, lastQuery, lastSave, lastCrash,
               returned>>

helperVars == <<retry, subscriptions, subscriptionsFile, lastCall>>

-----------------------------------------------------------------------------
(* Bounds of the model *)

TicksPerDay == 2
StartDay == 10
MaxPosts == 3
MaxCrashPosts == 2
MaxCrashes == 1
MaxLegacyPosts == 1
LongWindowDays == 9

(* Program constants *)

DefaultActiveWindowDays == 7
DefaultReopeningWindowDays == 30
MigrationBackdateDays == 8
DaysPerMonth == 30
ReopenMonths == 3

JobIds == {"A", "B"}
Procs == {"p1", "p2", "p3"}
Unset == 0
(* The configurations: nothing set (the defaults), and a one-day window *)
(* with a two-day reopening window.                                      *)
EnvChoices == {<<Unset, Unset>>, <<1, 2>>}

T0 == StartDay * TicksPerDay

(* The instants at which the clock is read: around one and two days, seven *)
(* days and ninety days after the start.                                   *)
Instants ==
    { T0 + d : d \in {0, TicksPerDay, TicksPerDay + 1, 2 * TicksPerDay,
                      2 * TicksPerDay + 1,
                      DefaultActiveWindowDays * TicksPerDay - 1,
                      DefaultActiveWindowDays * TicksPerDay,
                      ReopenMonths * DaysPerMonth * TicksPerDay - 1,
                      ReopenMonths * DaysPerMonth * TicksPerDay} }

-----------------------------------------------------------------------------
(* Calendar: toISOString() of a tick *)

MonthLengths == <<31, 29, 31, 30, 31, 30, 31, 31, 30, 31, 30, 31>>

RECURSIVE MonthOfDay(_, _)
MonthOfDay(day, m) ==
    IF m >= 12 \/ day < MonthLengths[m] THEN m
    ELSE MonthOfDay(day - MonthLengths[m], m + 1)

DateOf(t) == t \div TicksPerDay

MonthOf(t) == MonthOfDay(DateOf(t), 1)

Months == 1..12

-----------------------------------------------------------------------------
(* Sequences *)

(* the instances counted whatever their jobId *)
CountAll(s, j) == Len(s)

RECURSIVE Count(_, _)
Count(s, j) ==
    IF s = <<>> THEN 0
    ELSE (IF Head(s).jobId = j THEN 1 ELSE 0) + Count(Tail(s), j)

RECURSIVE InsertByPosted(_, _)
InsertByPosted(sorted, x) ==
    IF sorted = <<>> THEN <<x>>
    ELSE IF Head(sorted).postedToDiscord <= x.postedToDiscord
         THEN <<Head(sorted)>> \o InsertByPosted(Tail(sorted), x)
         ELSE <<x>> \o sorted

RECURSIVE SortByPosted(_)
SortByPosted(s) ==
    IF s = <<>> THEN <<>>
    ELSE InsertByPosted(SortByPosted(SubSeq(s, 1, Len(s) - 1)), s[Len(s)])

Range(s) == { s[i] : i \in DOMAIN s }

-----------------------------------------------------------------------------
(* JSON text of the documents *)

NoFile == [exists |-> FALSE, bytes |-> <<>>]

FileOf(bytes) == [exists |-> TRUE, bytes |-> bytes]

JobUnits(jobs) == [i \in DOMAIN jobs |-> [u |-> "job", job |-> jobs[i]]]

(* The opening unit of an object tells what its "jobs" member is: "list"    *)
(* (the units that follow are its elements), "absent" (no such member, or   *)
(* null) or "other" (a value that is not an array).                         *)
StoreText(d) ==
    <<[u |-> "{", version |-> d.version, lastUpdated |-> d.lastUpdated,
       totalJobs |-> d.totalJobs, activeWindowDays |-> d.activeWindowDays,
       jobs |-> "list"]>>
        \o JobUnits(d.jobs) \o <<[u |-> "}"]>>

(* the value of a property that is missing or was never assigned;          *)
(* JSON.stringify leaves such a member out and JSON.parse gives it back as  *)
(* undefined                                                                *)
Undefined == <<[undefined |-> TRUE]>>

(* a number held by a property that may also be undefined *)
Number(n) == <<[number |-> n]>>

(* an object text without a list of jobs *)
ObjectText(version, jobs) ==
    <<[u |-> "{", version |-> version, lastUpdated |-> 0, totalJobs |-> 0,
       activeWindowDays |-> Undefined, jobs |-> jobs], [u |-> "}"]>>

(* rawData.jobs when the member is missing, and when it is not an array *)
NotAList == <<[notAList |-> TRUE]>>

ArchiveText(jobs) == <<[u |-> "["]>> \o JobUnits(jobs) \o <<[u |-> "]"]>>

LegacyText(ids) ==
    <<[u |-> "["]>> \o [i \in DOMAIN ids |-> [u |-> "str", str |-> ids[i]]]
        \o <<[u |-> "]"]>>

Inner(bytes) == SubSeq(bytes, 2, Len(bytes) - 1)

ParseError == [kind |-> "error"]

JSONParse(bytes) ==
    IF Len(bytes) < 2 THEN ParseError
    ELSE LET first == bytes[1]
             last  == bytes[Len(bytes)]
             inner == Inner(bytes)
         IN  IF first.u = "{" /\ last.u = "}"
                /\ \A i \in DOMAIN inner : inner[i].u = "job"
                /\ (first.jobs # "list" => inner = <<>>)
             THEN [kind |-> "object", version |-> first.version,
                   lastUpdated |-> first.lastUpdated,
                   totalJobs |-> first.totalJobs,
                   activeWindowDays |-> first.activeWindowDays,
                   jobs |-> IF first.jobs = "list"
                            THEN [i \in DOMAIN inner |-> inner[i].job]
                            ELSE IF first.jobs = "absent" THEN Undefined
                            ELSE NotAList]
             ELSE IF first.u = "[" /\ last.u = "]"
                     /\ \A i \in DOMAIN inner : inner[i].u = "job"
             THEN [kind |-> "array", items |-> [i \in DOMAIN inner |-> inner[i].job]]
             ELSE IF first.u = "[" /\ last.u = "]"
                     /\ \A i \in DOMAIN inner : inner[i].u = "str"
             THEN [kind |-> "strings", items |-> [i \in DOMAIN inner |-> inner[i].str]]
             ELSE ParseError

-----------------------------------------------------------------------------
(* The store and its instances *)

NewJob(jobId, t, instanceNumber) ==
    [id |-> <<jobId, "on", DateOf(t), instanceNumber>>,
     jobId |-> jobId,
     postedToDiscord |-> t,
     instanceNumber |-> instanceNumber]

MigratedJob(jobId, index, t) ==
    [id |-> <<jobId, "migrated", index, 0>>,
     jobId |-> jobId,
     postedToDiscord |-> t - MigrationBackdateDays * TicksPerDay,
     instanceNumber |-> 1]

(* this.activeWindowDays as createEmptyDatabase and migrateFromV1 read it:  *)
(* both run inside loadPostedJobs, which the constructor calls (line 26)    *)
(* before it assigns this.activeWindowDays (line 28)                        *)
ThisActiveWindowDays == Undefined

CreateEmptyDatabase(t) ==
    [version |-> 2, lastUpdated |-> t, jobs |-> <<>>, totalJobs |-> 0,
     activeWindowDays |-> ThisActiveWindowDays]

MigrateFromV1(jobIdsArray, t) ==
    [version |-> 2,
     lastUpdated |-> t,
     jobs |-> [i \in DOMAIN jobIdsArray |-> MigratedJob(jobIdsArray[i], i - 1, t)],
     totalJobs |-> Len(jobIdsArray),
     activeWindowDays |-> ThisActiveWindowDays]

LoadPostedJobs(file, t) ==
    IF ~file.exists THEN CreateEmptyDatabase(t)
    ELSE LET rawData == JSONParse(file.bytes)
         IN  IF rawData.kind = "error" THEN CreateEmptyDatabase(t)
             ELSE IF rawData.kind \in {"array", "strings"}
                  THEN MigrateFromV1(rawData.items, t)
             ELSE IF rawData.version = 2
                  THEN IF rawData.jobs = Undefined
                       THEN CreateEmptyDatabase(t)  \* rawData.jobs.length throws
                       ELSE [version |-> 2, lastUpdated |-> rawData.lastUpdated,
                             jobs |-> rawData.jobs,
                             totalJobs |-> rawData.totalJobs,
                             activeWindowDays |-> rawData.activeWindowDays]
             ELSE CreateEmptyDatabase(t)

ParseIntOr(env, default) == IF env = Unset THEN default ELSE env

-----------------------------------------------------------------------------
(* hasBeenPosted *)

NoJobData == [has |-> FALSE, valid |-> FALSE, at |-> 0]
InvalidDate == [has |-> TRUE, valid |-> FALSE, at |-> 0]
SourceDate(t) == [has |-> TRUE, valid |-> TRUE, at |-> t]

Cutoff(t, windowDays) == t - windowDays * TicksPerDay

(* the window taken a day too short *)
IsActiveShort(job, t, windowDays) ==
    job.postedToDiscord > Cutoff(t, windowDays) + TicksPerDay

IsActive(job, t, windowDays) == job.postedToDiscord > Cutoff(t, windowDays)

InstancesOf(jobs, jobId) ==
    LET Match(job) == job.jobId = jobId IN SelectSeq(jobs, Match)

(* the reopening window compared with < where the code has <= *)
FreshSourceStrict(jobData, t, reopenDays) ==
    jobData.valid /\ t - jobData.at < reopenDays * TicksPerDay

FreshSource(jobData, t, reopenDays) ==
    jobData.valid /\ t - jobData.at <= reopenDays * TicksPerDay

OldEnough(instances, t) ==
    t - SortByPosted(instances)[1].postedToDiscord
        >= ReopenMonths * DaysPerMonth * TicksPerDay

(* the reopening detection consulted before the active window *)
HasBeenPostedFreshFirst(d, jobId, jobData, t, windowDays, reopenDays) ==
    LET instances == InstancesOf(d.jobs, jobId)
    IN  IF instances = <<>> THEN FALSE
        ELSE IF jobData.has
             THEN ~FreshSource(jobData, t, reopenDays)
        ELSE IF \E i \in DOMAIN instances : IsActive(instances[i], t, windowDays)
             THEN TRUE
        ELSE ~OldEnough(instances, t)

HasBeenPosted(d, jobId, jobData, t, windowDays, reopenDays) ==
    LET instances == InstancesOf(d.jobs, jobId)
    IN  IF instances = <<>> THEN FALSE
        ELSE IF \E i \in DOMAIN instances : IsActive(instances[i], t, windowDays)
             THEN TRUE
        ELSE IF jobData.has
             THEN ~FreshSource(jobData, t, reopenDays)
        ELSE ~OldEnough(instances, t)

-----------------------------------------------------------------------------
(* archiveOldJobs *)

ActiveJobs(jobs, t, windowDays) ==
    LET Keep(job) == IsActive(job, t, windowDays) IN SelectSeq(jobs, Keep)

JobsToArchive(jobs, t, windowDays) ==
    LET Old(job) == ~IsActive(job, t, windowDays) IN SelectSeq(jobs, Old)

JobsOfMonth(jobs, month) ==
    LET In(job) == MonthOf(job.postedToDiscord) = month IN SelectSeq(jobs, In)

(* Object.entries(jobsByMonth): the months in the order of their first job *)
RECURSIVE MonthOrder(_)
MonthOrder(jobs) ==
    IF jobs = <<>> THEN <<>>
    ELSE LET rest == MonthOrder(SubSeq(jobs, 1, Len(jobs) - 1))
             m    == MonthOf(jobs[Len(jobs)].postedToDiscord)
         IN  IF m \in Range(rest) THEN rest ELSE Append(rest, m)

(* the bucket file is there and JSON.parse throws on it or gives a value    *)
(* that is not an array                                                     *)
NotAnArchive(file) == file.exists /\ JSONParse(file.bytes).kind # "array"

(* the entries that can still be read out of a damaged bucket file kept *)
ExistingArchiveSalvaged(file) ==
    LET Entry(unit) == unit.u = "job"
        units == SelectSeq(file.bytes, Entry)
    IN  [i \in DOMAIN units |-> units[i].job]

ExistingArchive(file) ==
    IF ~file.exists THEN <<>>
    ELSE LET parsed == JSONParse(file.bytes)
         IN  IF parsed.kind \in {"array", "strings"} THEN parsed.items ELSE <<>>

NewJobs(existingArchive, jobs) ==
    LET existingIds == { existingArchive[i].id : i \in DOMAIN existingArchive }
        Fresh(job) == job.id \notin existingIds
    IN  SelectSeq(jobs, Fresh)

MergedArchive(file, jobs) ==
    LET existingArchive == ExistingArchive(file)
    IN  SortByPosted(existingArchive \o NewJobs(existingArchive, jobs))

(* archiveOldJobs without the assignment of activeJobs to this.data.jobs *)
ArchivedDataKeeping(d, t, windowDays) == d

(* this.data after archiveOldJobs *)
ArchivedData(d, t, windowDays) ==
    LET activeJobs == ActiveJobs(d.jobs, t, windowDays)
    IN  IF JobsToArchive(d.jobs, t, windowDays) = <<>> THEN d
        ELSE [d EXCEPT !.jobs = activeJobs, !.totalJobs = Len(activeJobs)]

(* the archive directory after archiveOldJobs has replaced every bucket *)
ArchivedFiles(files, jobs, t, windowDays) ==
    LET toArchive == JobsToArchive(jobs, t, windowDays)
        touched   == Range(MonthOrder(toArchive))
    IN  [m \in Months |->
            IF m \in touched
            THEN FileOf(ArchiveText(MergedArchive(files[m], JobsOfMonth(toArchive, m))))
            ELSE files[m]]

(* totalArchived: the jobs that were new to their bucket, month by month *)
RECURSIVE TotalArchived(_, _, _)
TotalArchived(files, toArchive, months) ==
    IF months = <<>> THEN 0
    ELSE LET m == Head(months)
         IN  Len(NewJobs(ExistingArchive(files[m]), JobsOfMonth(toArchive, m)))
                 + TotalArchived(files, toArchive, Tail(months))

ArchivedTmps(tmps, jobs, t, windowDays) ==
    LET touched == Range(MonthOrder(JobsToArchive(jobs, t, windowDays)))
    IN  [m \in Months |-> IF m \in touched THEN NoFile ELSE tmps[m]]

-----------------------------------------------------------------------------
(* retryWithBackoff (src/src/utils/error-handler.js)                        *)
(*                                                                          *)
(* The second argument is an options object, whose members may be missing, *)
(* or, as the README writes the call, a number.  A result or an error of   *)
(* fn is named by the number of the call that gave it.                     *)

DefaultMaxRetries == 3
DefaultInitialDelay == 1000
DefaultMaxDelay == 10000
DefaultFactor == 2

MaxRetriesChoices == {0, 1, 2}
InitialDelayChoices == {1, 3}
MaxDelayChoices == {2, 10}
FactorChoices == {1, 3}

Maybe(numbers) == {Undefined} \cup { Number(n) : n \in numbers }

OptionsObjects ==
    [kind : {"object"}, value : {0}, maxRetries : Maybe(MaxRetriesChoices),
     initialDelay : Maybe(InitialDelayChoices), maxDelay : Maybe(MaxDelayChoices),
     factor : Maybe(FactorChoices), onRetry : BOOLEAN]

(* retryWithBackoff(fn, maxRetries): the second argument is a number *)
OptionsNumber(n) ==
    [kind |-> "number", value |-> n, maxRetries |-> Undefined,
     initialDelay |-> Undefined, maxDelay |-> Undefined, factor |-> Undefined,
     onRetry |-> FALSE]

OptionsChoices ==
    OptionsObjects \cup { OptionsNumber(n) : n \in MaxRetriesChoices \cup {5} }

(* const { name = default } = options: a property of a number is undefined *)
Destructured(member, default) ==
    IF member = Undefined THEN default ELSE member[1].number

RECURSIVE Pow(_, _)
Pow(base, exponent) ==
    IF exponent = 0 THEN 1 ELSE base * Pow(base, exponent - 1)

(* the delay without Math.min(..., maxDelay) *)
DelayUncapped(initialDelay, factor, attempt, maxDelay) ==
    initialDelay * Pow(factor, attempt)

(* Math.min(initialDelay * Math.pow(factor, attempt), maxDelay) *)
Delay(initialDelay, factor, attempt, maxDelay) ==
    LET grown == initialDelay * Pow(factor, attempt)
    IN  IF grown <= maxDelay THEN grown ELSE maxDelay

(* calls: the calls of fn so far; retries: the onRetry invocations;         *)
(* delays: the delays waited; value: the call whose result was returned;    *)
(* thrown: the call whose error was thrown (0 for undefined)                *)
NoRetry ==
    [pc |-> "idle", options |-> OptionsNumber(0), maxRetries |-> 0,
     initialDelay |-> 0, maxDelay |-> 0, factor |-> 0, onRetry |-> FALSE,
     attempt |-> 0, lastError |-> 0, calls |-> 0, retries |-> <<>>,
     delays |-> <<>>, value |-> 0, thrown |-> 0]

(* the call, up to the first await fn() *)
RetryWithBackoff(options) ==
    /\ retry.pc \in {"idle", "resolved", "rejected"}
    /\ LET maxRetries == Destructured(options.maxRetries, DefaultMaxRetries)
           entered ==
               [NoRetry EXCEPT
                   !.options = options,
                   !.maxRetries = maxRetries,
                   !.initialDelay =
                       Destructured(options.initialDelay, DefaultInitialDelay),
                   !.maxDelay = Destructured(options.maxDelay, DefaultMaxDelay),
                   !.factor = Destructured(options.factor, DefaultFactor),
                   !.onRetry = options.onRetry]
       IN  retry' = IF 0 <= maxRetries
                    THEN [entered EXCEPT !.pc = "calling", !.calls = 1]
                    ELSE [entered EXCEPT !.pc = "rejected"]
    /\ UNCHANGED <<storeVars, subscriptions, subscriptionsFile, lastCall>>

(* fn() fulfils: return await fn() *)
FnResolves ==
    /\ retry.pc = "calling"
    /\ retry' = [retry EXCEPT !.pc = "resolved", !.value = retry.calls]
    /\ UNCHANGED <<storeVars, subscriptions, subscriptionsFile, lastCall>>

(* fn() rejects: the catch block, up to setTimeout *)
FnRejects ==
    /\ retry.pc = "calling"
    /\ LET error == retry.calls
           delay == Delay(retry.initialDelay, retry.factor, retry.attempt,
                          retry.maxDelay)
       IN  retry' =
              IF retry.attempt = retry.maxRetries
              THEN [retry EXCEPT !.pc = "rejected", !.lastError = error,
                                 !.thrown = error]
              ELSE [retry EXCEPT
                       !.pc = "waiting",
                       !.lastError = error,
                       !.retries =
                           IF retry.onRetry
                           THEN Append(@, [error |-> error,
                                           attempt |-> retry.attempt + 1,
                                           delay |-> delay])
                           ELSE @,
                       !.delays = Append(@, delay)]
    /\ UNCHANGED <<storeVars, subscriptions, subscriptionsFile, lastCall>>

(* the timer fires: attempt++, the loop test, and the next await fn() *)
TimerFires ==
    /\ retry.pc = "waiting"
    /\ retry' =
          IF retry.attempt + 1 <= retry.maxRetries
          THEN [retry EXCEPT !.pc = "calling", !.attempt = @ + 1, !.calls = @ + 1]
          ELSE [retry EXCEPT !.pc = "rejected", !.attempt = @ + 1,
                             !.thrown = retry.lastError]
    /\ UNCHANGED <<storeVars, subscriptions, subscriptionsFile, lastCall>>

-----------------------------------------------------------------------------
(* SubscriptionManager (src/src/data/subscription-manager.js)               *)
(*                                                                          *)
(* this.subscriptions is a function from the userIds that are keys of the   *)
(* object to their lists of tags.  The text of subscriptions.json is an     *)
(* opening unit, one unit per key and a closing unit.                       *)

Users == {"u1", "u2"}
Tags == {"a", "b"}

EmptySubscriptions == [u \in {} |-> <<>>]

SubscriptionsText(m) ==
    LET IsKey(u) == u \in DOMAIN m
        keys == SelectSeq(<<"u1", "u2">>, IsKey)
    IN  <<[u |-> "{"]>>
            \o [i \in DOMAIN keys |->
                   [u |-> "member", user |-> keys[i], tags |-> m[keys[i]]]]
            \o <<[u |-> "}"]>>

SubscriptionsParse(bytes) ==
    IF Len(bytes) < 2 THEN ParseError
    ELSE LET inner == Inner(bytes)
         IN  IF /\ bytes[1].u = "{" /\ bytes[Len(bytes)].u = "}"
                /\ \A i \in DOMAIN inner : inner[i].u = "member"
             THEN [kind |-> "object",
                   map |-> [u \in { inner[i].user : i \in DOMAIN inner } |->
                              LET i == CHOOSE k \in DOMAIN inner : inner[k].user = u
                              IN  inner[i].tags]]
             ELSE ParseError

LoadSubscriptions(file) ==
    IF file.exists
    THEN LET parsed == SubscriptionsParse(file.bytes)
         IN  IF parsed.kind = "error" THEN EmptySubscriptions ELSE parsed.map
    ELSE EmptySubscriptions

(* what mkdirSync and writeFileSync can do: write the text, throw before   *)
(* anything is written, or throw after the file was opened and emptied;    *)
(* saveSubscriptions catches and logs the error                            *)
WriteOutcomes == {"written", "failed", "truncated"}

SaveSubscriptions(m, outcome) ==
    IF outcome = "written" THEN FileOf(SubscriptionsText(m))
    ELSE IF outcome = "truncated" THEN FileOf(<<>>)
    ELSE subscriptionsFile

(* list.indexOf(tag), counted from 1; 0 where JavaScript gives -1 *)
IndexOf(list, tag) ==
    IF \E i \in DOMAIN list : list[i] = tag
    THEN CHOOSE i \in DOMAIN list :
            list[i] = tag /\ \A k \in DOMAIN list : list[k] = tag => i <= k
    ELSE 0

(* splice that removes the first element whatever the index *)
SplicedFirst(list, index) == Tail(list)

(* list.splice(index, 1) *)
Spliced(list, index) ==
    SubSeq(list, 1, index - 1) \o SubSeq(list, index + 1, Len(list))

WithKey(m, userId, list) ==
    [u \in DOMAIN m \cup {userId} |-> IF u = userId THEN list ELSE m[u]]

(* the removal of a tag without the deletion of a key left with no tag *)
RemovedKeepingKey(m, userId, index) ==
    WithKey(m, userId, Spliced(m[userId], index))

(* this.subscriptions after the splice and the delete of unsubscribe *)
Removed(m, userId, index) ==
    LET list == Spliced(m[userId], index)
    IN  IF Len(list) = 0 THEN [u \in DOMAIN m \ {userId} |-> m[u]]
        ELSE WithKey(m, userId, list)

(* before and fileBefore: this.subscriptions and the file when the call     *)
(* began; prior: the call made before this one                              *)
NoCall == [call |-> "", user |-> "", tag |-> "", result |-> FALSE, list |-> <<>>,
           before |-> EmptySubscriptions, fileBefore |-> NoFile,
           prior |-> [call |-> "", user |-> "", tag |-> "", result |-> FALSE,
                      before |-> EmptySubscriptions]]

Called(call, userId, tag, result, list) ==
    [call |-> call, user |-> userId, tag |-> tag, result |-> result, list |-> list,
     before |-> subscriptions, fileBefore |-> subscriptionsFile,
     prior |-> [call |-> lastCall.call, user |-> lastCall.user,
                tag |-> lastCall.tag, result |-> lastCall.result,
                before |-> lastCall.before]]

Subscribe(userId, tag) ==
    /\ LET created == IF userId \in DOMAIN subscriptions THEN subscriptions
                      ELSE WithKey(subscriptions, userId, <<>>)
       IN  IF tag \notin Range(created[userId])
           THEN /\ subscriptions' = WithKey(created, userId, Append(created[userId], tag))
                /\ \E outcome \in WriteOutcomes :
                      subscriptionsFile' = SaveSubscriptions(subscriptions', outcome)
                /\ lastCall' = Called("subscribe", userId, tag, TRUE, <<>>)
           ELSE /\ subscriptions' = created
                /\ subscriptionsFile' = subscriptionsFile
                /\ lastCall' = Called("subscribe", userId, tag, FALSE, <<>>)
    /\ UNCHANGED <<storeVars, retry>>

Unsubscribe(userId, tag) ==
    /\ LET index == IF userId \in DOMAIN subscriptions
                    THEN IndexOf(subscriptions[userId], tag) ELSE 0
       IN  IF userId \in DOMAIN subscriptions /\ index > 0
           THEN /\ subscriptions' = Removed(subscriptions, userId, index)
                /\ \E outcome \in WriteOutcomes :
                      subscriptionsFile' = SaveSubscriptions(subscriptions', outcome)
                /\ lastCall' = Called("unsubscribe", userId, tag, TRUE, <<>>)
           ELSE /\ UNCHANGED <<subscriptions, subscriptionsFile>>
                /\ lastCall' = Called("unsubscribe", userId, tag, FALSE, <<>>)
    /\ UNCHANGED <<storeVars, retry>>

GetUserSubscriptions(userId) ==
    /\ lastCall' = Called("getUserSubscriptions", userId, "", FALSE,
                          IF userId \in DOMAIN subscriptions
                          THEN subscriptions[userId] ELSE <<>>)
    /\ UNCHANGED <<storeVars, retry, subscriptions, subscriptionsFile>>

(* new SubscriptionManager() *)
ConstructSubscriptions ==
    /\ subscriptions' = LoadSubscriptions(subscriptionsFile)
    /\ lastCall' = NoCall
    /\ UNCHANGED <<storeVars, retry, subscriptionsFile>>

InitHelpers ==
    /\ retry = NoRetry
    /\ subscriptionsFile = NoFile
    /\ subscriptions = LoadSubscriptions(subscriptionsFile)
    /\ lastCall = NoCall

-----------------------------------------------------------------------------
(* Ghost records *)

NoQuery == [some |-> FALSE, proc |-> "", jobId |-> "", jobData |-> NoJobData,
            result |-> FALSE]

(* archived: jobsToArchive of the save; reported: archiveStats.archived;    *)
(* again: the save before it ran at the same instant; jobsBefore and        *)
(* bucketsBefore: this.data.jobs and the buckets when the save began        *)
(* faults: the file-system calls that threw during the save                 *)
(* call and newJob (of a frame): the method that was called, and the        *)
(* instance it has appended when it is markAsPosted                         *)
(* emptied (of a frame): existingArchive of the bucket at hand was reset to *)
(* [] because the file could not be read or did not hold a list             *)
NoSave == [some |-> FALSE, proc |-> "", archived |-> <<>>, reported |-> 0,
           again |-> FALSE, jobsBefore |-> <<>>, bucketsBefore |-> <<>>,
           faults |-> <<>>]

Idle == "idle"

StoreFile == 0

NoFrame == [months |-> <<>>, toArchive |-> <<>>, activeJobs |-> <<>>,
            file |-> StoreFile, text |-> <<>>, fd |-> "closed", before |-> NoFile,
            totalArchived |-> 0, again |-> FALSE, jobsBefore |-> <<>>,
            bucketsBefore |-> <<>>, faults |-> <<>>, emptied |-> FALSE,
            call |-> "", newJob |-> <<>>]

(* redone: the instances the interrupted save had already moved into their *)
(* buckets while the store file still was the old one                      *)
NoCrash == [some |-> FALSE, count |-> 0, file |-> StoreFile, before |-> NoFile,
            text |-> <<>>, redone |-> <<>>]

(* no call has returned a value since the last other operation *)
NoReturn == [call |-> "", value |-> Undefined]

(* what a call of markAsPosted evaluates to: the function ends with         *)
(* this.savePostedJobs() and has no return statement                        *)
MarkAsPostedResult(newJob) == Undefined

JobDataChoices(t, reopenDays) ==
    {NoJobData}
        \cup { SourceDate(t - age) :
                 age \in {reopenDays * TicksPerDay, reopenDays * TicksPerDay + 1} }

-----------------------------------------------------------------------------
(* The single-writer program: every operation runs to completion *)

Writer == "p1"

Quiet == \A p \in Procs : pc[p] \in {Idle, "exited"}

Init ==
    /\ now = T0
    /\ \E env \in EnvChoices : envActive = env[1] /\ envReopen = env[2]
    /\ postedJobsFile = NoFile
    /\ postedJobsTmp = NoFile
    /\ archiveFiles = [m \in Months |-> NoFile]
    /\ archiveTmps = [m \in Months |-> NoFile]
    /\ data = [p \in Procs |-> LoadPostedJobs(postedJobsFile, now)]
    /\ activeWindowDays = [p \in Procs |-> ParseIntOr(envActive, DefaultActiveWindowDays)]
    /\ reopeningWindowDays = [p \in Procs |-> ParseIntOr(envReopen, DefaultReopeningWindowDays)]
    /\ pc = [p \in Procs |-> Idle]
    /\ frame = [p \in Procs |-> NoFrame]
    /\ history = <<>>
    /\ lastQuery = NoQuery
    /\ lastSave = NoSave
    /\ lastCrash = NoCrash
    /\ returned = NoReturn
    /\ InitHelpers

(* savePostedJobs of process p on store d, as one step *)
SaveAll(p, d) ==
    LET w     == activeWindowDays[p]
        saved == [ArchivedData(d, now, w) EXCEPT !.lastUpdated = now]
    IN  /\ archiveFiles' = ArchivedFiles(archiveFiles, d.jobs, now, w)
        /\ archiveTmps' = ArchivedTmps(archiveTmps, d.jobs, now, w)
        /\ data' = [data EXCEPT ![p] = saved]
        /\ postedJobsFile' = FileOf(StoreText(saved))
        /\ postedJobsTmp' = NoFile
        /\ lastSave' =
              LET toArchive == JobsToArchive(d.jobs, now, w)
              IN  [some |-> TRUE, proc |-> p, archived |-> toArchive,
                   reported |-> TotalArchived(archiveFiles, toArchive,
                                              MonthOrder(toArchive)),
                   again |-> lastSave.some /\ lastSave.proc = p,
                   jobsBefore |-> d.jobs, bucketsBefore |-> archiveFiles,
                   faults |-> <<>>]

(* the store file read again before the new instance is appended *)
PushedDataReloading(d, jobId, t) ==
    LET onDisk == LoadPostedJobs(postedJobsFile, t)
        instanceNumber == Count(onDisk.jobs, jobId) + 1
        jobs == Append(onDisk.jobs, NewJob(jobId, t, instanceNumber))
    IN  [onDisk EXCEPT !.jobs = jobs, !.lastUpdated = t, !.totalJobs = Len(jobs)]

(* the new instance appended without the update of metadata.totalJobs *)
PushedDataUncounted(d, jobId, t) ==
    LET instanceNumber == Count(d.jobs, jobId) + 1
    IN  [d EXCEPT !.jobs = Append(@, NewJob(jobId, t, instanceNumber)),
                  !.lastUpdated = t]

PushedData(d, jobId, t) ==
    LET instanceNumber == Count(d.jobs, jobId) + 1
        jobs == Append(d.jobs, NewJob(jobId, t, instanceNumber))
    IN  [d EXCEPT !.jobs = jobs, !.lastUpdated = t, !.totalJobs = Len(jobs)]

MarkAsPosted(p, jobId) ==
    /\ pc[p] = Idle
    /\ Len(history) < MaxPosts
    /\ LET pushed == PushedData(data[p], jobId, now)
       IN  /\ history' = Append(history, pushed.jobs[Len(pushed.jobs)])
           /\ SaveAll(p, pushed)
           /\ returned' = [call |-> "markAsPosted",
                           value |-> MarkAsPostedResult(pushed.jobs[Len(pushed.jobs)])]
    /\ UNCHANGED helperVars
    /\ lastQuery' = NoQuery
    /\ UNCHANGED <<now, envActive, envReopen, activeWindowDays, reopeningWindowDays,
                   pc, frame, lastCrash>>

SavePostedJobs(p) ==
    /\ pc[p] = Idle
    /\ SaveAll(p, data[p])
    /\ UNCHANGED helperVars
    /\ lastQuery' = NoQuery
    /\ returned' = NoReturn
    /\ UNCHANGED <<now, envActive, envReopen, activeWindowDays, reopeningWindowDays,
                   pc, frame, history, lastCrash>>

(* this.data after hasBeenPosted, had it sorted this.data.jobs itself *)
QueriedStoreSortedInPlace(d, jobId) == [d EXCEPT !.jobs = SortByPosted(@)]

(* this.data after hasBeenPosted: filter has made a new array of the        *)
(* matching instances, and it is this array that sort reorders              *)
QueriedStore(d, jobId) ==
    LET instances == InstancesOf(d.jobs, jobId)
        oldestFirst == SortByPosted(instances)
    IN  d

HasBeenPostedCall(p, jobId, jobData) ==
    /\ pc[p] = Idle
    /\ data' = [data EXCEPT ![p] = QueriedStore(data[p], jobId)]
    /\ UNCHANGED helperVars
    /\ lastQuery' = [some |-> TRUE, proc |-> p, jobId |-> jobId, jobData |-> jobData,
                     result |-> HasBeenPosted(data[p], jobId, jobData, now,
                                              activeWindowDays[p],
                                              reopeningWindowDays[p])]
    /\ returned' = NoReturn
    /\ UNCHANGED <<now, envActive, envReopen, activeWindowDays,
                   reopeningWindowDays, postedJobsFile, postedJobsTmp, archiveFiles,
                   archiveTmps, pc, frame, history, lastSave, lastCrash>>

(* new PostedJobsManagerV2(): a process starts and loads the store *)
Construct(p) ==
    /\ pc[p] \in {Idle, "exited"}
    /\ data' = [data EXCEPT ![p] = LoadPostedJobs(postedJobsFile, now)]
    /\ activeWindowDays' =
           [activeWindowDays EXCEPT ![p] = ParseIntOr(envActive, DefaultActiveWindowDays)]
    /\ reopeningWindowDays' =
           [reopeningWindowDays EXCEPT
               ![p] = ParseIntOr(envReopen, DefaultReopeningWindowDays)]
    /\ UNCHANGED helperVars
    /\ lastQuery' = NoQuery
    /\ returned' = NoReturn
    /\ pc' = [pc EXCEPT ![p] = Idle]
    /\ frame' = [frame EXCEPT ![p] = NoFrame]
    /\ UNCHANGED <<now, envActive, envReopen, postedJobsFile, postedJobsTmp,
                   archiveFiles, archiveTmps, history, lastSave, lastCrash>>

Advance ==
    /\ Quiet
    /\ \E t \in Instants : t > now /\ now' = t
    /\ UNCHANGED helperVars
    /\ lastQuery' = NoQuery
    /\ returned' = NoReturn
    /\ lastSave' = NoSave
    /\ UNCHANGED <<envActive, envReopen, data, activeWindowDays, reopeningWindowDays,
                   postedJobsFile, postedJobsTmp, archiveFiles, archiveTmps, pc, frame,
                   history, lastCrash>>

Next ==
    \/ \E jobId \in JobIds : MarkAsPosted(Writer, jobId)
    \/ SavePostedJobs(Writer)
    \/ \E jobId \in JobIds, jobData \in JobDataChoices(now, reopeningWindowDays[Writer]) :
            HasBeenPostedCall(Writer, jobId, jobData)
    \/ Construct(Writer)
    \/ Advance

Spec == Init /\ [][Next]_vars

-----------------------------------------------------------------------------
(* getStats *)

MaxOf(numbers) == CHOOSE x \in numbers : \A y \in numbers : y <= x

(* getStats with an instance posted exactly at the cutoff counted active *)
GetStatsInclusive(d, t, windowDays) ==
    LET cutoffDate == Cutoff(t, windowDays)
        Recent(j) == j.postedToDiscord >= cutoffDate
        activeCount == Len(SelectSeq(d.jobs, Recent))
        uniqueJobIds == { d.jobs[i].jobId : i \in DOMAIN d.jobs }
        instanceCounts == [jobId \in uniqueJobIds |-> Count(d.jobs, jobId)]
    IN  [version |-> d.version,
         totalRecords |-> Len(d.jobs),
         uniqueJobs |-> Cardinality(uniqueJobIds),
         activeJobs |-> activeCount,
         toBeArchived |-> Len(d.jobs) - activeCount,
         maxInstances |-> MaxOf(Range(instanceCounts) \cup {0}),
         activeWindowDays |-> windowDays,
         lastUpdated |-> d.lastUpdated]

GetStats(d, t, windowDays) ==
    LET cutoffDate == Cutoff(t, windowDays)
        Recent(j) == j.postedToDiscord > cutoffDate
        activeCount == Len(SelectSeq(d.jobs, Recent))
        toArchiveCount == Len(d.jobs) - activeCount
        uniqueJobIds == { d.jobs[i].jobId : i \in DOMAIN d.jobs }
        instanceCounts == [jobId \in uniqueJobIds |-> Count(d.jobs, jobId)]
        maxInstances == MaxOf({ instanceCounts[jobId] : jobId \in uniqueJobIds }
                                  \cup {0})
    IN  [version |-> d.version,
         totalRecords |-> Len(d.jobs),
         uniqueJobs |-> Cardinality(uniqueJobIds),
         activeJobs |-> activeCount,
         toBeArchived |-> toArchiveCount,
         maxInstances |-> maxInstances,
         activeWindowDays |-> windowDays,
         lastUpdated |-> d.lastUpdated]

GetStatsCall(p) ==
    /\ pc[p] = Idle
    /\ returned' = [call |-> "getStats",
                    value |-> <<GetStats(data[p], now, activeWindowDays[p])>>]
    /\ UNCHANGED helperVars
    /\ lastQuery' = NoQuery
    /\ UNCHANGED <<now, envActive, envReopen, data, activeWindowDays,
                   reopeningWindowDays, postedJobsFile, postedJobsTmp, archiveFiles,
                   archiveTmps, pc, frame, history, lastSave, lastCrash>>

(* the single writer, asked for its statistics at any time *)
NextStats ==
    \/ Next
    \/ GetStatsCall(Writer)

SpecStats == Init /\ [][NextStats]_vars

-----------------------------------------------------------------------------
(* The helpers on their own *)

NextRetry ==
    \/ \E options \in OptionsChoices : RetryWithBackoff(options)
    \/ FnResolves
    \/ FnRejects
    \/ TimerFires

SpecRetry == Init /\ [][NextRetry]_vars

NextSubscriptions ==
    \/ \E userId \in Users, tag \in Tags : Subscribe(userId, tag)
    \/ \E userId \in Users, tag \in Tags : Unsubscribe(userId, tag)
    \/ \E userId \in Users : GetUserSubscriptions(userId)
    \/ ConstructSubscriptions

SpecSubscriptions == Init /\ [][NextSubscriptions]_vars

-----------------------------------------------------------------------------
(* savePostedJobs step by step: one step per file-system call, so that a    *)
(* process can crash between two calls and two processes can interleave.    *)
(* A descriptor follows its file: it is "tmp" while the file it opened is   *)
(* still at the temp path, "target" once some process has renamed that file *)
(* onto the target path, and "orphan" once the target was replaced again.   *)

TmpOf(f) == IF f = StoreFile THEN postedJobsTmp ELSE archiveTmps[f]

TargetOf(f) == IF f = StoreFile THEN postedJobsFile ELSE archiveFiles[f]

SetFiles(f, tmp, target) ==
    IF f = StoreFile
    THEN /\ postedJobsTmp' = tmp
         /\ postedJobsFile' = target
         /\ UNCHANGED <<archiveFiles, archiveTmps>>
    ELSE /\ archiveTmps' = [archiveTmps EXCEPT ![f] = tmp]
         /\ archiveFiles' = [archiveFiles EXCEPT ![f] = target]
         /\ UNCHANGED <<postedJobsFile, postedJobsTmp>>

(* writeSync at offset 0 of a file that holds old *)
Overwrite(old, text) == text \o SubSeq(old, Len(text) + 1, Len(old))

(* the path openSync is given: the target path where the code has tempPath *)
OpenPathInPlace == "target"

OpenPath == "tmp"

(* the record of the last crash once the restarted process saves again *)
AfterCrash ==
    [NoCrash EXCEPT !.count = lastCrash.count,
                    !.redone = IF lastCrash.some THEN lastCrash.redone ELSE <<>>]

(* the frame of savePostedJobs on entry *)
EntryFrame(p, d) ==
    [NoFrame EXCEPT !.again = lastSave.some /\ lastSave.proc = p,
                    !.jobsBefore = d.jobs, !.bucketsBefore = archiveFiles]

(* the frame of savePostedJobs when it turns to the store file itself *)
StoreFrame(fr, d) ==
    [fr EXCEPT !.file = StoreFile, !.text = StoreText(d),
               !.before = postedJobsFile]

(* the frame of archiveOldJobs when it turns to the bucket of month m *)
BucketFrame(fr, months) ==
    [fr EXCEPT !.months = months, !.file = Head(months), !.text = <<>>,
               !.fd = "closed", !.before = archiveFiles[Head(months)],
               !.emptied = FALSE]

(* savePostedJobs entered with store d: archiveOldJobs splits the jobs;     *)
(* called tells the method the caller has entered and, for markAsPosted,    *)
(* the instance it has appended before it calls savePostedJobs              *)
StartSave(p, d, called) ==
    LET w         == activeWindowDays[p]
        toArchive == JobsToArchive(d.jobs, now, w)
        stamped   == [d EXCEPT !.lastUpdated = now]
        entry     == [EntryFrame(p, d) EXCEPT !.call = called.call,
                                              !.newJob = called.newJob]
    IN  IF toArchive = <<>>
        THEN /\ data' = [data EXCEPT ![p] = stamped]
             /\ frame' = [frame EXCEPT ![p] = StoreFrame(entry, stamped)]
             /\ pc' = [pc EXCEPT ![p] = "open"]
        ELSE /\ data' = [data EXCEPT ![p] = d]
             /\ frame' = [frame EXCEPT ![p] =
                    BucketFrame([entry EXCEPT
                                    !.toArchive = toArchive,
                                    !.activeJobs = ActiveJobs(d.jobs, now, w)],
                                MonthOrder(toArchive))]
             /\ pc' = [pc EXCEPT ![p] = "read"]

BeginMarkAsPosted(p, jobId) ==
    /\ pc[p] = Idle
    /\ Len(history) < MaxPosts
    /\ LET pushed == PushedData(data[p], jobId, now)
       IN  /\ history' = Append(history, pushed.jobs[Len(pushed.jobs)])
           /\ StartSave(p, pushed, [call |-> "markAsPosted",
                                     newJob |-> <<pushed.jobs[Len(pushed.jobs)]>>])
    /\ UNCHANGED helperVars
    /\ lastQuery' = NoQuery
    /\ returned' = NoReturn
    /\ lastSave' = NoSave
    /\ lastCrash' = AfterCrash
    /\ UNCHANGED <<now, envActive, envReopen, activeWindowDays, reopeningWindowDays,
                   postedJobsFile, postedJobsTmp, archiveFiles, archiveTmps>>

BeginSavePostedJobs(p) ==
    /\ pc[p] = Idle
    /\ StartSave(p, data[p], [call |-> "savePostedJobs", newJob |-> <<>>])
    /\ UNCHANGED helperVars
    /\ lastQuery' = NoQuery
    /\ returned' = NoReturn
    /\ lastSave' = NoSave
    /\ lastCrash' = AfterCrash
    /\ UNCHANGED <<now, envActive, envReopen, activeWindowDays, reopeningWindowDays,
                   postedJobsFile, postedJobsTmp, archiveFiles, archiveTmps, history>>

(* existsSync, readFileSync and the merge of one bucket *)
ReadBucket(p) ==
    /\ pc[p] = "read"
    /\ LET fr == frame[p]
           m  == fr.file
           jobs == JobsOfMonth(fr.toArchive, m)
       IN  frame' = [frame EXCEPT
                        ![p].text = ArchiveText(MergedArchive(archiveFiles[m], jobs)),
                        ![p].totalArchived =
                            @ + Len(NewJobs(ExistingArchive(archiveFiles[m]), jobs)),
                        ![p].emptied = NotAnArchive(archiveFiles[m])]
    /\ pc' = [pc EXCEPT ![p] = "open"]
    /\ UNCHANGED helperVars
    /\ lastQuery' = NoQuery
    /\ returned' = NoReturn
    /\ UNCHANGED <<now, envActive, envReopen, data, activeWindowDays,
                   reopeningWindowDays, postedJobsFile, postedJobsTmp, archiveFiles,
                   archiveTmps, history, lastSave, lastCrash>>

(* openSync(tempPath, 'w'): creates the file or empties the one there *)
OpenTmp(p) ==
    /\ pc[p] = "open"
    /\ LET f == frame[p].file
       IN  IF OpenPath = "tmp"
           THEN SetFiles(f, FileOf(<<>>), TargetOf(f))
           ELSE SetFiles(f, TmpOf(f), FileOf(<<>>))
    /\ frame' = [frame EXCEPT ![p].fd = OpenPath]
    /\ pc' = [pc EXCEPT ![p] = "write"]
    /\ UNCHANGED helperVars
    /\ lastQuery' = NoQuery
    /\ returned' = NoReturn
    /\ UNCHANGED <<now, envActive, envReopen, data, activeWindowDays,
                   reopeningWindowDays, history, lastSave, lastCrash>>

(* the files after process p has written bytes through its descriptor *)
Written(p, bytes) ==
    LET f == frame[p].file
    IN  IF frame[p].fd = "tmp"
        THEN SetFiles(f, FileOf(Overwrite(TmpOf(f).bytes, bytes)), TargetOf(f))
        ELSE IF frame[p].fd = "target"
        THEN SetFiles(f, TmpOf(f), FileOf(Overwrite(TargetOf(f).bytes, bytes)))
        ELSE UNCHANGED <<postedJobsFile, postedJobsTmp, archiveFiles, archiveTmps>>

WriteTmp(p) ==
    /\ pc[p] = "write"
    /\ Written(p, frame[p].text)
    /\ pc' = [pc EXCEPT ![p] = "fsync"]
    /\ UNCHANGED helperVars
    /\ lastQuery' = NoQuery
    /\ returned' = NoReturn
    /\ UNCHANGED <<now, envActive, envReopen, data, activeWindowDays,
                   reopeningWindowDays, frame, history, lastSave, lastCrash>>

FsyncTmp(p) ==
    /\ pc[p] = "fsync"
    /\ pc' = [pc EXCEPT ![p] = "close"]
    /\ UNCHANGED helperVars
    /\ lastQuery' = NoQuery
    /\ returned' = NoReturn
    /\ UNCHANGED <<now, envActive, envReopen, data, activeWindowDays,
                   reopeningWindowDays, postedJobsFile, postedJobsTmp, archiveFiles,
                   archiveTmps, frame, history, lastSave, lastCrash>>

CloseTmp(p) ==
    /\ pc[p] = "close"
    /\ frame' = [frame EXCEPT ![p].fd = "closed"]
    /\ pc' = [pc EXCEPT ![p] = "rename"]
    /\ UNCHANGED helperVars
    /\ lastQuery' = NoQuery
    /\ returned' = NoReturn
    /\ UNCHANGED <<now, envActive, envReopen, data, activeWindowDays,
                   reopeningWindowDays, postedJobsFile, postedJobsTmp, archiveFiles,
                   archiveTmps, history, lastSave, lastCrash>>

Rebound(fd) == IF fd = "tmp" THEN "target" ELSE IF fd = "target" THEN "orphan" ELSE fd

(* the other processes' descriptors after the temp file of f was renamed *)
FollowRename(q, f) ==
    IF pc[q] \in {"write", "fsync", "close"} /\ frame[q].file = f
    THEN [frame[q] EXCEPT !.fd = Rebound(@)]
    ELSE frame[q]

(* the catch of savePostedJobs, had it logged the error and returned *)
OnThrowReturn == Idle

(* the catch of savePostedJobs: process.exit(1) *)
OnThrow == "exited"

(* a call of process p throws at its present step and savePostedJobs        *)
(* catches it                                                               *)
Thrown(p, step) ==
    /\ pc' = [pc EXCEPT ![p] = OnThrow]
    /\ frame' = [frame EXCEPT
                    ![p] = [NoFrame EXCEPT !.faults = Append(frame[p].faults, step)]]

(* renameSync(tempPath, path); it throws when the temp file is gone *)
RenameTmp(p) ==
    /\ pc[p] = "rename"
    /\ LET fr   == frame[p]
           f    == fr.file
           rest == Tail(fr.months)
           kept == [data[p] EXCEPT !.jobs = fr.activeJobs,
                                   !.totalJobs = Len(fr.activeJobs),
                                   !.lastUpdated = now]
           mine == IF f = StoreFile THEN fr
                   ELSE IF rest # <<>>
                   THEN [BucketFrame(fr, rest) EXCEPT
                            !.before = IF Head(rest) = f THEN TmpOf(f)
                                       ELSE archiveFiles[Head(rest)]]
                   ELSE [fr EXCEPT !.months = rest, !.file = StoreFile,
                                   !.text = StoreText(kept), !.fd = "closed",
                                   !.before = postedJobsFile,
                                   !.emptied = FALSE]
       IN  IF TmpOf(f).exists
           THEN /\ SetFiles(f, NoFile, TmpOf(f))
                /\ frame' = [q \in Procs |-> IF q = p THEN mine ELSE FollowRename(q, f)]
                /\ data' = IF f # StoreFile /\ rest = <<>>
                           THEN [data EXCEPT ![p] = kept] ELSE data
                /\ pc' = [pc EXCEPT ![p] = IF f = StoreFile THEN "verify"
                                           ELSE IF rest # <<>> THEN "read"
                                           ELSE "open"]
           ELSE /\ Thrown(p, "rename")
                /\ UNCHANGED <<data, postedJobsFile, postedJobsTmp, archiveFiles,
                               archiveTmps>>
    /\ UNCHANGED helperVars
    /\ lastQuery' = NoQuery
    /\ returned' = NoReturn
    /\ UNCHANGED <<now, envActive, envReopen, activeWindowDays, reopeningWindowDays,
                   history, lastSave, lastCrash>>

(* the re-read of the store file and the comparison of the record counts *)
Verified(p) ==
    /\ postedJobsFile.exists
    /\ LET verifyData == JSONParse(postedJobsFile.bytes)
       IN  /\ verifyData.kind = "object"
           /\ Len(verifyData.jobs) = Len(data[p].jobs)

Verify(p) ==
    /\ pc[p] = "verify"
    /\ IF Verified(p)
       THEN /\ pc' = [pc EXCEPT ![p] = Idle]
            /\ frame' = [frame EXCEPT ![p] = NoFrame]
            /\ lastSave' = [some |-> TRUE, proc |-> p,
                            archived |-> frame[p].toArchive,
                            reported |-> frame[p].totalArchived,
                            again |-> frame[p].again,
                            jobsBefore |-> frame[p].jobsBefore,
                            bucketsBefore |-> frame[p].bucketsBefore,
                            faults |-> frame[p].faults]
            /\ returned' =
                  IF frame[p].call = "markAsPosted"
                  THEN [call |-> "markAsPosted",
                        value |-> MarkAsPostedResult(frame[p].newJob[1])]
                  ELSE NoReturn
       ELSE /\ Thrown(p, "verify")
            /\ lastSave' = lastSave
            /\ returned' = NoReturn
    /\ UNCHANGED helperVars
    /\ lastQuery' = NoQuery
    /\ UNCHANGED <<now, envActive, envReopen, data, activeWindowDays,
                   reopeningWindowDays, postedJobsFile, postedJobsTmp, archiveFiles,
                   archiveTmps, history, lastCrash>>

SaveStep(p) ==
    \/ ReadBucket(p)
    \/ OpenTmp(p)
    \/ WriteTmp(p)
    \/ FsyncTmp(p)
    \/ CloseTmp(p)
    \/ RenameTmp(p)
    \/ Verify(p)

(* the instances of the buckets process p has renamed into place, as long  *)
(* as it has not renamed the store file                                     *)
Replaced(p) ==
    LET Done(job) == MonthOf(job.postedToDiscord) \notin Range(frame[p].months)
    IN  IF pc[p] = "verify" THEN <<>> ELSE SelectSeq(frame[p].toArchive, Done)

(* the process dies inside savePostedJobs and a new one is started *)
Restarted(p) ==
    /\ data' = [data EXCEPT ![p] = LoadPostedJobs(postedJobsFile', now)]
    /\ pc' = [pc EXCEPT ![p] = Idle]
    /\ frame' = [frame EXCEPT ![p] = NoFrame]
    /\ lastCrash.count < MaxCrashes
    /\ lastCrash' = [some |-> TRUE, count |-> lastCrash.count + 1,
                     file |-> frame[p].file, before |-> frame[p].before,
                     text |-> frame[p].text, redone |-> Replaced(p)]
    /\ UNCHANGED helperVars
    /\ lastQuery' = NoQuery
    /\ returned' = NoReturn
    /\ lastSave' = NoSave
    /\ UNCHANGED <<now, envActive, envReopen, activeWindowDays, reopeningWindowDays,
                   history>>

Crash(p) ==
    /\ pc[p] \in {"read", "open", "write", "fsync", "close", "rename", "verify"}
    /\ UNCHANGED <<postedJobsFile, postedJobsTmp, archiveFiles, archiveTmps>>
    /\ Restarted(p)

(* the process dies while writeSync has written only part of the text *)
CrashInWrite(p) ==
    /\ pc[p] = "write"
    /\ \E k \in 1..(Len(frame[p].text) - 1) :
          Written(p, SubSeq(frame[p].text, 1, k))
    /\ Restarted(p)

-----------------------------------------------------------------------------
(* One writer that may crash at any step of a save *)

NextCrash ==
    \/ \E jobId \in JobIds :
          Len(history) < MaxCrashPosts /\ BeginMarkAsPosted(Writer, jobId)
    \/ BeginSavePostedJobs(Writer)
    \/ SaveStep(Writer)
    \/ Crash(Writer)
    \/ CrashInWrite(Writer)
    \/ Advance

SpecCrash == Init /\ [][NextCrash]_vars

(* the job of the specifications that announce a single job *)
RepostedJob == "A"

(* File-system calls that throw *)

(* mkdirSync(dataDir) throws on entry of savePostedJobs *)
FailEntry(p) ==
    /\ pc[p] = Idle
    /\ Thrown(p, "mkdir")
    /\ UNCHANGED helperVars
    /\ lastQuery' = NoQuery
    /\ returned' = NoReturn
    /\ lastSave' = NoSave
    /\ UNCHANGED <<now, envActive, envReopen, data, activeWindowDays,
                   reopeningWindowDays, postedJobsFile, postedJobsTmp, archiveFiles,
                   archiveTmps, history, lastCrash>>

(* readFileSync or JSON.parse of an existing bucket throws: the catch       *)
(* inside archiveOldJobs goes on with an empty existingArchive              *)
FailReadBucket(p) ==
    /\ pc[p] = "read"
    /\ archiveFiles[frame[p].file].exists
    /\ LET jobs == JobsOfMonth(frame[p].toArchive, frame[p].file)
       IN  frame' = [frame EXCEPT
                        ![p].text = ArchiveText(SortByPosted(jobs)),
                        ![p].totalArchived = @ + Len(jobs),
                        ![p].faults = Append(@, "read"),
                        ![p].emptied = TRUE]
    /\ pc' = [pc EXCEPT ![p] = "open"]
    /\ UNCHANGED helperVars
    /\ lastQuery' = NoQuery
    /\ returned' = NoReturn
    /\ UNCHANGED <<now, envActive, envReopen, data, activeWindowDays,
                   reopeningWindowDays, postedJobsFile, postedJobsTmp, archiveFiles,
                   archiveTmps, history, lastSave, lastCrash>>

(* openSync, writeSync, fsyncSync, closeSync, renameSync or the read of the *)
(* verification throws                                                      *)
FailStep(p) ==
    /\ pc[p] \in {"open", "write", "fsync", "close", "rename", "verify"}
    /\ Thrown(p, pc[p])
    /\ UNCHANGED helperVars
    /\ lastQuery' = NoQuery
    /\ returned' = NoReturn
    /\ UNCHANGED <<now, envActive, envReopen, data, activeWindowDays,
                   reopeningWindowDays, postedJobsFile, postedJobsTmp, archiveFiles,
                   archiveTmps, history, lastSave, lastCrash>>

NextFault ==
    \/ Len(history) < MaxCrashPosts /\ BeginMarkAsPosted(Writer, RepostedJob)
    \/ BeginSavePostedJobs(Writer)
    \/ SaveStep(Writer)
    \/ FailEntry(Writer)
    \/ FailReadBucket(Writer)
    \/ FailStep(Writer)
    \/ pc[Writer] = "exited" /\ Construct(Writer)
    \/ Advance

SpecFault == Init /\ [][NextFault]_vars

(* The same writer announcing one job again and again, as a caller does     *)
(* that does not ask hasBeenPosted first                                    *)
NextRepost ==
    \/ BeginMarkAsPosted(Writer, RepostedJob)
    \/ BeginSavePostedJobs(Writer)
    \/ SaveStep(Writer)
    \/ Crash(Writer)
    \/ CrashInWrite(Writer)
    \/ Advance

SpecRepost == Init /\ [][NextRepost]_vars

-----------------------------------------------------------------------------
(* Two writers that loaded the same store file and save concurrently, and a *)
(* third process that is started afresh and asks                            *)

Racers == {"p1", "p2"}

Reader == "p3"

RaceJob(p) == IF p = "p1" THEN "A" ELSE "B"

NextRace ==
    \/ \E p \in Racers : BeginMarkAsPosted(p, RaceJob(p))
    \/ \E p \in Racers : OpenTmp(p)
    \/ \E p \in Racers : WriteTmp(p)
    \/ \E p \in Racers : FsyncTmp(p)
    \/ \E p \in Racers : CloseTmp(p)
    \/ \E p \in Racers : RenameTmp(p)
    \/ \E p \in Racers : Verify(p)
    \/ Construct(Reader)
    \/ \E jobId \in JobIds, jobData \in JobDataChoices(now, reopeningWindowDays[Reader]) :
          HasBeenPostedCall(Reader, jobId, jobData)

SpecRace == Init /\ [][NextRace]_vars

-----------------------------------------------------------------------------
(* Processes started on a store file they did not write: the documents     *)
(* loadPostedJobs can find at postedJobsPath                               *)

LegacyLists == {<<>>, <<"A">>, <<"A", "B">>}

LegacyDocs == { FileOf(LegacyText(ids)) : ids \in LegacyLists }

Version2Stores ==
    { [version |-> 2, lastUpdated |-> T0 - TicksPerDay, jobs |-> jobs,
       totalJobs |-> n, activeWindowDays |-> Undefined] :
        jobs \in {<<>>, <<NewJob("A", T0, 1)>>,
                  <<NewJob("A", T0 - TicksPerDay, 1), NewJob("B", T0, 1)>>,
                  <<NewJob("A", T0 - TicksPerDay, 2),
                    NewJob("A", T0 - 2 * TicksPerDay, 1)>>},
        n \in {0, 2} }

Version2Docs == { FileOf(StoreText(d)) : d \in Version2Stores }

(* an empty file, and texts that end before their closing bracket *)
CorruptDocs ==
    {FileOf(<<>>)}
        \cup { FileOf(SubSeq(StoreText(d), 1, Len(StoreText(d)) - 1)) :
                 d \in Version2Stores }
        \cup { FileOf(SubSeq(LegacyText(ids), 1, Len(ids) + 1)) : ids \in LegacyLists }

UnknownVersionDocs ==
    { FileOf(ObjectText(version, jobs)) :
        version \in {0, 1, 3}, jobs \in {"list", "absent"} }

NoListDocs == { FileOf(ObjectText(2, jobs)) : jobs \in {"absent", "other"} }

LoadDocs ==
    {NoFile} \cup LegacyDocs \cup Version2Docs \cup CorruptDocs
        \cup UnknownVersionDocs \cup NoListDocs

(* the configurations with a window longer than the migration backdates *)
LegacyEnvChoices == EnvChoices \cup {<<LongWindowDays, 2>>}

InitFrom(docs, envs) ==
    /\ now = T0
    /\ \E env \in envs : envActive = env[1] /\ envReopen = env[2]
    /\ postedJobsFile \in docs
    /\ postedJobsTmp = NoFile
    /\ archiveFiles = [m \in Months |-> NoFile]
    /\ archiveTmps = [m \in Months |-> NoFile]
    /\ data = [p \in Procs |-> LoadPostedJobs(postedJobsFile, now)]
    /\ activeWindowDays = [p \in Procs |-> ParseIntOr(envActive, DefaultActiveWindowDays)]
    /\ reopeningWindowDays = [p \in Procs |-> ParseIntOr(envReopen, DefaultReopeningWindowDays)]
    /\ pc = [p \in Procs |-> Idle]
    /\ frame = [p \in Procs |-> NoFrame]
    /\ history = <<>>
    /\ lastQuery = NoQuery
    /\ lastSave = NoSave
    /\ lastCrash = NoCrash
    /\ returned = NoReturn
    /\ InitHelpers

(* processes started on whatever the file holds; the writer is started     *)
(* again at any later time                                                 *)
InitLoad == InitFrom(LoadDocs, LegacyEnvChoices)

(* hasBeenPosted is asked of the stores that have a list of jobs *)
NextLoad ==
    \/ Construct(Writer)
    \/ \E jobId \in JobIds, jobData \in JobDataChoices(now, reopeningWindowDays[Writer]) :
          /\ data[Writer].jobs # NotAList
          /\ HasBeenPostedCall(Writer, jobId, jobData)
    \/ Advance

SpecLoad == InitLoad /\ [][NextLoad]_vars

(* the writer started on a legacy list *)
InitLegacy == InitFrom(LegacyDocs, LegacyEnvChoices)

NextLegacy ==
    \/ \E jobId \in JobIds :
          Len(history) < MaxLegacyPosts /\ MarkAsPosted(Writer, jobId)
    \/ SavePostedJobs(Writer)
    \/ \E jobId \in JobIds, jobData \in JobDataChoices(now, reopeningWindowDays[Writer]) :
            HasBeenPostedCall(Writer, jobId, jobData)
    \/ Construct(Writer)
    \/ Advance

SpecLegacy == InitLegacy /\ [][NextLegacy]_vars

-----------------------------------------------------------------------------
(* A writer started late on a store whose instances have aged, over archive *)
(* buckets that earlier runs, or something else, have left behind           *)

MarchDay == 70

MarchTick == MarchDay * TicksPerDay

(* instances archived by an earlier run *)
EarlierMarch == NewJob("A", MarchTick - TicksPerDay, 1)

AgedStores ==
    { [version |-> 2, lastUpdated |-> MarchTick, jobs |-> jobs,
       totalJobs |-> Len(jobs), activeWindowDays |-> Undefined] :
        jobs \in {<<NewJob("A", T0, 1)>>,
                  <<NewJob("A", T0, 1), NewJob("B", MarchTick, 1)>>,
                  <<NewJob("B", MarchTick, 1), NewJob("A", MarchTick + 1, 2)>>} }

(* what archive/<month>.json can hold: nothing, a list, a list cut short,  *)
(* an empty file, and a JSON object                                        *)
BucketDocs(earlier) ==
    {NoFile, FileOf(ArchiveText(<<earlier>>)),
     FileOf(SubSeq(ArchiveText(<<earlier>>), 1, 2)), FileOf(<<>>),
     FileOf(ObjectText(2, "absent"))}

InitBuckets ==
    /\ now = T0 + ReopenMonths * DaysPerMonth * TicksPerDay - 1
    /\ envActive = Unset /\ envReopen = Unset
    /\ postedJobsFile \in { FileOf(StoreText(d)) : d \in AgedStores }
    /\ postedJobsTmp = NoFile
    /\ \E january \in BucketDocs(NewJob("B", T0 - TicksPerDay, 1)),
          march \in BucketDocs(EarlierMarch) :
          archiveFiles = [m \in Months |->
                             IF m = MonthOf(T0) THEN january
                             ELSE IF m = MonthOf(MarchTick) THEN march
                             ELSE NoFile]
    /\ archiveTmps = [m \in Months |-> NoFile]
    /\ data = [p \in Procs |-> LoadPostedJobs(postedJobsFile, now)]
    /\ activeWindowDays = [p \in Procs |-> ParseIntOr(envActive, DefaultActiveWindowDays)]
    /\ reopeningWindowDays = [p \in Procs |-> ParseIntOr(envReopen, DefaultReopeningWindowDays)]
    /\ pc = [p \in Procs |-> Idle]
    /\ frame = [p \in Procs |-> NoFrame]
    /\ history = <<>>
    /\ lastQuery = NoQuery
    /\ lastSave = NoSave
    /\ lastCrash = NoCrash
    /\ returned = NoReturn
    /\ InitHelpers

NextBuckets ==
    \/ Len(history) < MaxLegacyPosts /\ BeginMarkAsPosted(Writer, RepostedJob)
    \/ BeginSavePostedJobs(Writer)
    \/ SaveStep(Writer)
    \/ FailReadBucket(Writer)
    \/ FailStep(Writer)
    \/ Crash(Writer)
    \/ CrashInWrite(Writer)
    \/ pc[Writer] = "exited" /\ Construct(Writer)
    \/ Advance

SpecBuckets == InitBuckets /\ [][NextBuckets]_vars

-----------------------------------------------------------------------------
(* What the claims speak about *)

RECURSIVE ArchivedUpTo(_)
ArchivedUpTo(m) ==
    IF m = 0 THEN <<>>
    ELSE ArchivedUpTo(m - 1) \o ExistingArchive(archiveFiles[m])

(* every instance in the active store of the writer and in the buckets *)
AllStored == data[Writer].jobs \o ArchivedUpTo(12)

Occurrences(s, id) == Cardinality({ i \in DOMAIN s : s[i].id = id })

WindowTicks == activeWindowDays[Writer] * TicksPerDay

ReopenTicks == reopeningWindowDays[Writer] * TicksPerDay

QuarterTicks == ReopenMonths * DaysPerMonth * TicksPerDay

Queried == InstancesOf(data[Writer].jobs, lastQuery.jobId)

AllAged(instances) ==
    \A i \in DOMAIN instances : ~IsActive(instances[i], now, activeWindowDays[Writer])

(* C1: for every jobId the instance numbers markAsPosted assigned are 1, 2, *)
(* 3, ... in call order, whatever has been archived in between.             *)
C1_NumbersSequential ==
    \A jobId \in JobIds :
        LET made == InstancesOf(history, jobId)
        IN  \A i \in DOMAIN made : made[i].instanceNumber = i

(* C2: a hasBeenPosted query for a jobId that markAsPosted recorded less    *)
(* than activeWindowDays ago returns true, whatever sourceDate it carries.  *)
C2_Recency ==
    (/\ lastQuery.some
     /\ \E i \in DOMAIN history :
           /\ history[i].jobId = lastQuery.jobId
           /\ history[i].postedToDiscord <= now
           /\ now < history[i].postedToDiscord + WindowTicks)
        => lastQuery.result

C2_Witness ==
    /\ lastQuery.some
    /\ lastQuery.jobData.has
    /\ lastQuery.result
    /\ Len(history) >= 2
    /\ history[1].jobId = lastQuery.jobId
    /\ history[2].jobId # lastQuery.jobId
    /\ history[1].postedToDiscord < now
    /\ now < history[1].postedToDiscord + WindowTicks

(* C3: for a jobId whose only instance was recorded at t, a query without   *)
(* sourceDate made after t + activeWindowDays returns true while fewer than *)
(* 90 days have passed since t and false from then on.                      *)
C3_ExpiryWithoutSource ==
    \A jobId \in JobIds :
        LET made == InstancesOf(history, jobId)
        IN  (/\ lastQuery.some
             /\ lastQuery.jobId = jobId
             /\ ~lastQuery.jobData.has
             /\ Len(made) = 1
             /\ now > made[1].postedToDiscord + WindowTicks)
                => (lastQuery.result <=> now - made[1].postedToDiscord < QuarterTicks)

(* C4: the ids in the active store and the buckets are, with their          *)
(* multiplicities, the ids markAsPosted has created.                        *)
C4_Conservation ==
    \A i \in DOMAIN history :
        Occurrences(AllStored, history[i].id) = Occurrences(history, history[i].id)

(* C5: when the store holds instances of the jobId and all of them are      *)
(* older than activeWindowDays, a query with a sourceDate returns false if  *)
(* the sourceDate is at most reopeningWindowDays old and true otherwise,    *)
(* however old the earliest instance is.                                    *)
C5_ReopeningWithSource ==
    (/\ lastQuery.some
     /\ lastQuery.jobData.has
     /\ lastQuery.jobData.valid
     /\ Queried # <<>>
     /\ AllAged(Queried))
        => (lastQuery.result <=> now - lastQuery.jobData.at > ReopenTicks)

C5_Witness ==
    /\ lastQuery.some
    /\ lastQuery.jobData.has
    /\ lastQuery.jobData.valid
    /\ Queried # <<>>
    /\ AllAged(Queried)
    /\ now - lastQuery.jobData.at = ReopenTicks
    /\ ~lastQuery.result
    /\ now - Queried[1].postedToDiscord < QuarterTicks

(* C6: no two instances in the active store and the buckets carry the same  *)
(* id.                                                                      *)
C6_IdsUnique ==
    \A i, k \in DOMAIN AllStored :
        AllStored[i].id = AllStored[k].id => i = k

(* C7: right after a savePostedJobs every instance in memory and in the     *)
(* written file is newer than the cutoff of that save, and every instance   *)
(* that was not is in the bucket of its month.                              *)
C7_ActiveWindowAtSave ==
    lastSave.some =>
        /\ \A i \in DOMAIN data[Writer].jobs :
              IsActive(data[Writer].jobs[i], now, activeWindowDays[Writer])
        /\ postedJobsFile.exists
        /\ LET onDisk == JSONParse(postedJobsFile.bytes)
           IN  /\ onDisk.kind = "object"
               /\ \A i \in DOMAIN onDisk.jobs :
                     IsActive(onDisk.jobs[i], now, activeWindowDays[Writer])
        /\ \A i \in DOMAIN lastSave.archived :
              lastSave.archived[i] \in
                  Range(ExistingArchive(
                          archiveFiles[MonthOf(lastSave.archived[i].postedToDiscord)]))

SavePhases == {"read", "open", "write", "fsync", "close", "rename", "verify"}

Complete(file, f) ==
    file.exists =>
        IF f = StoreFile THEN JSONParse(file.bytes).kind = "object"
        ELSE JSONParse(file.bytes).kind = "array"

(* C8: at every step of a save, and after a crash at any of them, the store *)
(* file and every bucket hold a complete document, and the file being       *)
(* replaced holds what it held before or the complete new text.             *)
C8_AtomicPersistence ==
    /\ Complete(postedJobsFile, StoreFile)
    /\ \A m \in Months : Complete(archiveFiles[m], m)
    /\ pc[Writer] \in SavePhases =>
          TargetOf(frame[Writer].file)
              \in {frame[Writer].before, FileOf(frame[Writer].text)}
    /\ lastCrash.some =>
          TargetOf(lastCrash.file) \in {lastCrash.before, FileOf(lastCrash.text)}

C8_Witness ==
    /\ lastCrash.some
    /\ lastCrash.file # StoreFile
    /\ lastCrash.before.exists
    /\ TargetOf(lastCrash.file) = lastCrash.before
    /\ TmpOf(lastCrash.file).exists
    /\ TmpOf(lastCrash.file).bytes # <<>>
    /\ JSONParse(TmpOf(lastCrash.file).bytes).kind = "error"

(* C9: once both writers are through, the store file is the complete        *)
(* document one of them wrote.                                              *)
C9_NeverTorn ==
    ((\A p \in Racers : pc[p] \in {Idle, "exited"}) /\ postedJobsFile.exists)
        => LET doc == JSONParse(postedJobsFile.bytes)
           IN  /\ doc.kind = "object"
               /\ doc.totalJobs = Len(doc.jobs)
               /\ \A i \in DOMAIN doc.jobs : doc.jobs[i] \in Range(history)

(* C10: of two writers that loaded the same file, the store file never      *)
(* holds the instances of both, and a fresh process that does not find a    *)
(* jobId in the file answers false for it.                                  *)
C10_LastWriterWins ==
    /\ ~(/\ InstancesOf(data[Reader].jobs, "A") # <<>>
         /\ InstancesOf(data[Reader].jobs, "B") # <<>>)
    /\ (/\ lastQuery.some
        /\ lastQuery.proc = Reader
        /\ InstancesOf(data[Reader].jobs, lastQuery.jobId) = <<>>)
           => ~lastQuery.result

C10_Witness ==
    /\ \A p \in Racers : pc[p] = Idle
    /\ InstancesOf(history, "A") # <<>>
    /\ InstancesOf(history, "B") # <<>>
    /\ postedJobsFile.exists
    /\ data[Reader] = LoadPostedJobs(postedJobsFile, now)
    /\ InstancesOf(data[Reader].jobs, "B") # <<>>
    /\ lastQuery.some
    /\ lastQuery.proc = Reader
    /\ lastQuery.jobId = "A"
    /\ ~lastQuery.result
    /\ \A i \in DOMAIN history : now < history[i].postedToDiscord + WindowTicks

-----------------------------------------------------------------------------
(* C11: a save that follows another save at the same instant finds nothing *)
(* to archive: it reports archived = 0, rewrites no bucket, leaves every    *)
(* bucket file as it was and leaves the active instance list unchanged.     *)
C11_ArchiveIdempotent ==
    (lastSave.some /\ lastSave.again /\ lastSave.proc = Writer) =>
        /\ lastSave.reported = 0
        /\ lastSave.archived = <<>>
        /\ archiveFiles = lastSave.bucketsBefore
        /\ data[Writer].jobs = lastSave.jobsBefore

C11_Witness ==
    /\ lastSave.some
    /\ lastSave.again
    /\ lastSave.proc = Writer
    /\ lastSave.reported = 0
    /\ \E m \in Months : ExistingArchive(archiveFiles[m]) # <<>>
    /\ data[Writer].jobs # <<>>
    /\ archiveFiles = lastSave.bucketsBefore

IdsOnce(jobs) == \A i, k \in DOMAIN jobs : jobs[i].id = jobs[k].id => i = k

(* C12: when a save was interrupted after it had replaced a bucket and      *)
(* before it replaced the store file, the next save of the restarted        *)
(* process archives the same aged instances again and every bucket holds    *)
(* every id exactly once.                                                   *)
C12_NoDuplicateOnRearchive ==
    (lastSave.some /\ lastCrash.redone # <<>>) =>
        /\ Range(lastCrash.redone) \subseteq Range(lastSave.archived)
        /\ lastSave.reported = Len(lastSave.archived) - Len(lastCrash.redone)
        /\ \A m \in Months : IdsOnce(ExistingArchive(archiveFiles[m]))
        /\ \A i \in DOMAIN lastCrash.redone :
              lastCrash.redone[i] \in
                  Range(ExistingArchive(
                          archiveFiles[MonthOf(lastCrash.redone[i].postedToDiscord)]))

C12_Witness ==
    /\ lastSave.some
    /\ lastCrash.redone # <<>>
    /\ Range(lastCrash.redone) \subseteq Range(lastSave.archived)
    /\ lastSave.reported = 0

SortedByPosted(jobs) ==
    \A i, k \in DOMAIN jobs :
        i < k => jobs[i].postedToDiscord <= jobs[k].postedToDiscord

(* C13: every bucket file is a list, sorted ascending by postedToDiscord,   *)
(* without two entries of the same id, and holds only instances posted in   *)
(* its month.                                                               *)
C13_BucketShape ==
    \A m \in Months :
        archiveFiles[m].exists =>
            /\ JSONParse(archiveFiles[m].bytes).kind = "array"
            /\ LET bucket == ExistingArchive(archiveFiles[m])
               IN  /\ SortedByPosted(bucket)
                   /\ IdsOnce(bucket)
                   /\ \A i \in DOMAIN bucket :
                         MonthOf(bucket[i].postedToDiscord) = m

Migrated(jobs) ==
    LET FromV1(job) == job.id[2] = "migrated" IN SelectSeq(jobs, FromV1)

(* C14: a store loaded from a legacy list holds one instance per identifier *)
(* of the list, with instanceNumber 1 and a postedToDiscord outside the     *)
(* active window; after the next save no migrated instance is in the active *)
(* store and all of them are in the buckets of their months.                *)
C14_MigrationEvicted ==
    /\ \A ids \in LegacyLists :
          postedJobsFile = FileOf(LegacyText(ids)) =>
              LET jobs == data[Writer].jobs
              IN  /\ Len(jobs) = Len(ids)
                  /\ \A i \in DOMAIN jobs :
                        /\ jobs[i].jobId = ids[i]
                        /\ jobs[i].instanceNumber = 1
                        /\ ~IsActive(jobs[i], now, activeWindowDays[Writer])
    /\ lastSave.some =>
          /\ Migrated(data[Writer].jobs) = <<>>
          /\ \A i \in DOMAIN lastSave.jobsBefore :
                LET job == lastSave.jobsBefore[i]
                IN  job.id[2] = "migrated" =>
                        job \in Range(ExistingArchive(
                                         archiveFiles[MonthOf(job.postedToDiscord)]))

(* C15: a started process holds a version-2 store: the empty one when the   *)
(* file is missing, corrupt, of an unknown version or a version-2 document  *)
(* without a usable list of jobs, and the document itself when it is a      *)
(* version-2 document; the load does not end the process.                   *)
C15_LoadTotal ==
    \A p \in Procs :
        /\ pc[p] = Idle
        /\ data[p].version = 2
        /\ postedJobsFile
               \in {NoFile} \cup CorruptDocs \cup UnknownVersionDocs \cup NoListDocs
              => \E t \in Instants : data[p] = CreateEmptyDatabase(t)
        /\ \A d \in Version2Stores :
              postedJobsFile = FileOf(StoreText(d)) => data[p] = d

Files == <<postedJobsFile, postedJobsTmp, archiveFiles, archiveTmps>>

(* C16: a hasBeenPosted call changes neither the store in memory (the order *)
(* of its list included) nor any file, on whichever branch it returns.      *)
C16_QueryReadOnly ==
    [][lastQuery'.some => (data' = data /\ Files' = Files)]_vars

(* the call has gone through the branch that sorts, on a store whose        *)
(* instances of the jobId are not in the order of their dates               *)
C16_Witness ==
    /\ lastQuery.some
    /\ ~lastQuery.jobData.has
    /\ Len(Queried) >= 2
    /\ ~SortedByPosted(Queried)
    /\ AllAged(Queried)
    /\ lastQuery.result

(* C17: a process is back from a save only if no call of the save threw,    *)
(* except the read of a bucket, over which archiveOldJobs goes on; and then *)
(* the store file is the complete text of the store in memory.              *)
C17_FailedSaveExits ==
    /\ pc[Writer] = Idle => frame[Writer].faults = <<>>
    /\ lastSave.some =>
          /\ Range(lastSave.faults) \subseteq {"read"}
          /\ postedJobsFile = FileOf(StoreText(data[Writer]))

(* C17 as stated, without the exception: no call of a save that returned   *)
(* has thrown                                                               *)
C17_AnyFailureExits == lastSave.some => lastSave.faults = <<>>

C17_Witness ==
    /\ lastSave.some
    /\ lastSave.faults = <<"read">>
    /\ lastSave.archived # <<>>
    /\ pc[Writer] = Idle

(* C18: when markAsPosted returns, the save has run, the new instance       *)
(* (posted now, numbered one more than the instances of its jobId that were *)
(* in the store) is in the store and in the store file, and lastUpdated is  *)
(* now; after every markAsPosted and every save totalJobs is the number of  *)
(* instances, in memory and in the file.                                    *)
C18_MarkPersists ==
    [][/\ lastSave'.some =>
            LET d   == data'[Writer]
                doc == JSONParse(postedJobsFile'.bytes)
            IN  /\ d.totalJobs = Len(d.jobs)
                /\ doc.kind = "object"
                /\ doc.jobs = d.jobs
                /\ doc.totalJobs = Len(doc.jobs)
       /\ Len(history') > Len(history) =>
            LET new == history'[Len(history')]
                doc == JSONParse(postedJobsFile'.bytes)
            IN  /\ lastSave'.some
                /\ new.postedToDiscord = now
                /\ new.instanceNumber = Count(data[Writer].jobs, new.jobId) + 1
                /\ new \in Range(data'[Writer].jobs)
                /\ new \in Range(doc.jobs)
                /\ data'[Writer].lastUpdated = now
                /\ doc.lastUpdated = now]_vars

(* markAsPosted has returned from a save that archived an older instance *)
C18_Witness ==
    /\ lastSave.some
    /\ lastSave.archived # <<>>
    /\ history # <<>>
    /\ history[Len(history)].postedToDiscord = now
    /\ history[Len(history)] \in Range(lastSave.jobsBefore)
    /\ history[Len(history)] \in Range(JSONParse(postedJobsFile.bytes).jobs)
    /\ data[Writer].totalJobs = Len(data[Writer].jobs)
    /\ data[Writer].lastUpdated = now

(* C19: when hasBeenPosted has just returned false for a jobId with a       *)
(* sourceDate while the store held k instances of it, all aged, the         *)
(* markAsPosted of that jobId that follows records instance k + 1, and any  *)
(* query for the jobId after it returns true.                               *)
C19_ReopeningNumbering ==
    [][(/\ lastQuery.some
        /\ lastQuery.jobData.has
        /\ ~lastQuery.result
        /\ Queried # <<>>
        /\ AllAged(Queried)
        /\ Len(history') > Len(history)
        /\ history'[Len(history')].jobId = lastQuery.jobId)
          => /\ history'[Len(history')].instanceNumber = Len(Queried) + 1
             /\ \A jobData \in JobDataChoices(now, reopeningWindowDays[Writer]) :
                   HasBeenPosted(data'[Writer], lastQuery.jobId, jobData, now,
                                 activeWindowDays[Writer],
                                 reopeningWindowDays[Writer])]_vars

(* the reopened job was recorded as instance 2 by a save that archived      *)
(* instance 1, and the query that follows returns true                      *)
C19_Witness ==
    /\ lastQuery.some
    /\ lastQuery.jobData.has
    /\ lastQuery.result
    /\ lastSave.some
    /\ Len(history) >= 2
    /\ history[Len(history)].jobId = lastQuery.jobId
    /\ history[Len(history)].postedToDiscord = now
    /\ history[Len(history)].instanceNumber = 2
    /\ Len(InstancesOf(lastSave.archived, lastQuery.jobId)) = 1
    /\ Len(InstancesOf(lastSave.jobsBefore, lastQuery.jobId)) = 2

(* C20: hasBeenPosted returns false for a jobId without an instance in the  *)
(* store, whatever jobData it is given, and true when an instance of the    *)
(* jobId is inside the active window, however fresh the sourceDate is.      *)
C20_NeverSeenAndActive ==
    lastQuery.some =>
        /\ Queried = <<>> => ~lastQuery.result
        /\ ~AllAged(Queried) => lastQuery.result

C20_Witness ==
    /\ lastQuery.some
    /\ lastQuery.jobData.has
    /\ lastQuery.jobData.valid
    /\ now - lastQuery.jobData.at <= ReopenTicks
    /\ Queried # <<>>
    /\ ~AllAged(Queried)
    /\ lastQuery.result

Times(s, x) == Cardinality({ i \in DOMAIN s : s[i] = x })

SameInstances(a, b) ==
    \A x \in Range(a) \cup Range(b) : Times(a, x) = Times(b, x)

(* C21: when the file of a bucket is there but cannot be read or parsed, or *)
(* holds JSON that is not a list, the save goes on, and the rename of that  *)
(* bucket leaves in it exactly the instances this save archives for that    *)
(* month, the buckets of the other months being untouched by it.            *)
C21_CorruptBucketReplaced ==
    [][LET fr == frame[Writer]
           f  == fr.file
       IN  /\ (pc[Writer] = "read" /\ NotAnArchive(archiveFiles[f]))
                  => pc'[Writer] # "exited"
           /\ (pc[Writer] = "read" /\ frame'[Writer].emptied)
                  => pc'[Writer] = "open"
           /\ (/\ pc[Writer] = "rename" /\ f # StoreFile /\ fr.emptied
               /\ pc'[Writer] \in {"read", "open"})
                  => /\ archiveFiles'[f].exists
                     /\ LET bucket == JSONParse(archiveFiles'[f].bytes)
                        IN  /\ bucket.kind = "array"
                            /\ SameInstances(bucket.items,
                                             JobsOfMonth(fr.toArchive, f))
                     /\ \A m \in Months \ {f} : archiveFiles'[m] = archiveFiles[m]
      ]_vars

(* a save has returned that found the January bucket damaged and the March *)
(* bucket in order: the first holds the archived January instance alone,   *)
(* the second what it held and the archived March instance                 *)
C21_Witness ==
    /\ lastSave.some
    /\ pc[Writer] = Idle
    /\ LET january == MonthOf(T0)
           march   == MonthOf(MarchTick)
       IN  /\ NotAnArchive(lastSave.bucketsBefore[january])
           /\ JobsOfMonth(lastSave.archived, january) # <<>>
           /\ JSONParse(archiveFiles[january].bytes).items
                  = JobsOfMonth(lastSave.archived, january)
           /\ ~NotAnArchive(lastSave.bucketsBefore[march])
           /\ lastSave.bucketsBefore[march].exists
           /\ JobsOfMonth(lastSave.archived, march) # <<>>
           /\ JSONParse(archiveFiles[march].bytes).items
                  = <<EarlierMarch>> \o JobsOfMonth(lastSave.archived, march)

(* C22: the store of a manager constructed over a missing, corrupt or       *)
(* legacy file records the configured window in metadata.activeWindowDays,  *)
(* and so does the document the save writes.                                *)
C22_WindowRecorded ==
    /\ data[Writer].activeWindowDays = Number(activeWindowDays[Writer])
    /\ (postedJobsFile.exists /\ JSONParse(postedJobsFile.bytes).kind = "object")
          => JSONParse(postedJobsFile.bytes).activeWindowDays
                 = Number(activeWindowDays[Writer])

(* C23: the value a markAsPosted call gives back to its caller is the       *)
(* instance the call has appended to the store.                             *)
C23_MarkReturnsInstance ==
    returned.call = "markAsPosted"
        => /\ history # <<>>
           /\ returned.value = <<history[Len(history)]>>

(* C24: a getStats call changes neither the store nor any file, and in its  *)
(* result activeJobs + toBeArchived = totalRecords = the number of          *)
(* instances, uniqueJobs is the number of distinct jobIds (at most          *)
(* totalRecords), maxInstances is the largest number of instances of one    *)
(* jobId (0 for an empty store), and activeJobs counts the instances the    *)
(* archiver would keep.                                                     *)
C24_StatsAggregate ==
    [][returned'.call = "getStats" =>
          LET stats == returned'.value[1]
              jobs  == data[Writer].jobs
          IN  /\ data' = data
              /\ Files' = Files
              /\ stats.activeJobs + stats.toBeArchived = stats.totalRecords
              /\ stats.totalRecords = Len(jobs)
              /\ stats.uniqueJobs = Cardinality({ jobs[i].jobId : i \in DOMAIN jobs })
              /\ stats.uniqueJobs <= stats.totalRecords
              /\ \A jobId \in JobIds :
                    Len(InstancesOf(jobs, jobId)) <= stats.maxInstances
              /\ jobs = <<>> => stats.maxInstances = 0
              /\ jobs # <<>> =>
                    \E jobId \in JobIds :
                        Len(InstancesOf(jobs, jobId)) = stats.maxInstances
              /\ stats.activeJobs = Len(ActiveJobs(jobs, now, activeWindowDays[Writer]))
    ]_vars

(* getStats has returned on a store with two instances of one job, one of  *)
(* them posted exactly activeWindowDays ago and so no longer active        *)
C24_Witness ==
    /\ returned.call = "getStats"
    /\ returned.value[1].maxInstances = 2
    /\ returned.value[1].activeJobs = 1
    /\ returned.value[1].toBeArchived >= 1
    /\ \E i \in DOMAIN data[Writer].jobs :
          data[Writer].jobs[i].postedToDiscord
              = Cutoff(now, activeWindowDays[Writer])

(* the instances of the store document in file, and of the bucket in file *)
StoredIn(file) ==
    IF ~file.exists THEN {}
    ELSE LET doc == JSONParse(file.bytes)
         IN  IF doc.kind = "object" /\ doc.jobs \notin {Undefined, NotAList}
             THEN Range(doc.jobs)
             ELSE {}

ArchivedIn(file) ==
    IF ~file.exists THEN {}
    ELSE LET doc == JSONParse(file.bytes)
         IN  IF doc.kind = "array" THEN Range(doc.items) ELSE {}

(* C25: no step of a save, no crash and no failure takes an instance out of *)
(* the store file unless it is in an archive bucket: whatever the store     *)
(* file held is afterwards in the store file or in a bucket, and when the   *)
(* store file is replaced every aged instance of the save is already in     *)
(* the bucket of its month.                                                 *)
C25_ArchiveBeforeEvict ==
    [][/\ \A job \in StoredIn(postedJobsFile) :
             \/ job \in StoredIn(postedJobsFile')
             \/ \E m \in Months : job \in ArchivedIn(archiveFiles'[m])
       /\ (postedJobsFile' # postedJobsFile /\ pc[Writer] = "rename")
             => \A i \in DOMAIN frame[Writer].toArchive :
                   LET job == frame[Writer].toArchive[i]
                   IN  job \in ArchivedIn(archiveFiles[MonthOf(job.postedToDiscord)])
      ]_vars

(* the maxRetries the caller has passed, in either form of the call *)
PassedMaxRetries ==
    IF retry.options.kind = "number" THEN retry.options.value
    ELSE Destructured(retry.options.maxRetries, DefaultMaxRetries)

(* C26: with maxRetries n passed, in the options or as the second argument, *)
(* fn is called at most n + 1 times; a call that resolves ends the retries  *)
(* with its result; after n + 1 failures the error of the last call is      *)
(* thrown; onRetry has run once after every failed call but the last.       *)
C26_BoundedAttempts ==
    /\ retry.calls <= PassedMaxRetries + 1
    /\ retry.pc = "resolved" => retry.value = retry.calls
    /\ retry.pc = "rejected" =>
          /\ retry.calls = PassedMaxRetries + 1
          /\ retry.thrown = retry.calls
    /\ retry.onRetry =>
          /\ retry.pc \in {"calling", "resolved", "rejected"}
                => Len(retry.retries) = retry.calls - 1
          /\ retry.pc = "waiting" => Len(retry.retries) = retry.calls
          /\ \A k \in DOMAIN retry.retries : retry.retries[k].error = k

(* C26 for the calls that pass an options object *)
C26_BoundedWithOptions == retry.options.kind = "object" => C26_BoundedAttempts

(* C27: the delay before retry k (k = 0 after the first failure) is         *)
(* min(initialDelay * factor^k, maxDelay); with factor >= 1 the delays      *)
(* never decrease and never exceed maxDelay; and there is one delay per     *)
(* failed call but the last, none after the final failure.                  *)
C27_DelaysCapped ==
    /\ \A k \in DOMAIN retry.delays :
          LET grown == retry.initialDelay * Pow(retry.factor, k - 1)
          IN  retry.delays[k] = IF grown <= retry.maxDelay THEN grown
                                ELSE retry.maxDelay
    /\ retry.factor >= 1 =>
          /\ \A k \in DOMAIN retry.delays : retry.delays[k] <= retry.maxDelay
          /\ \A k \in 1..(Len(retry.delays) - 1) :
                retry.delays[k] <= retry.delays[k + 1]
    /\ retry.pc \in {"calling", "resolved", "rejected"}
          => Len(retry.delays) = retry.calls - 1
    /\ retry.pc = "waiting" => Len(retry.delays) = retry.calls
    /\ Len(retry.delays) <= retry.maxRetries

(* every call has failed; the delays have grown and the last one was cut   *)
(* down to maxDelay                                                        *)
C27_Witness ==
    /\ retry.pc = "rejected"
    /\ Len(retry.delays) >= 2
    /\ retry.delays[1] < retry.delays[2]
    /\ retry.delays[Len(retry.delays)] = retry.maxDelay
    /\ retry.initialDelay * Pow(retry.factor, Len(retry.delays) - 1)
          > retry.maxDelay

NoTagTwice(list) == \A i, k \in DOMAIN list : list[i] = list[k] => i = k

(* the tags userId had in map m *)
TagsOf(m, userId) == IF userId \in DOMAIN m THEN Range(m[userId]) ELSE {}

(* C28: from the empty map on, no list of tags holds a tag twice and no     *)
(* user is a key without a tag: a user whose last tag is removed is no      *)
(* longer a key, and getUserSubscriptions gives the empty list for a user   *)
(* who is not a key.                                                        *)
C28_SubscriptionState ==
    /\ \A userId \in DOMAIN subscriptions :
          /\ subscriptions[userId] # <<>>
          /\ NoTagTwice(subscriptions[userId])
    /\ (/\ lastCall.call = "unsubscribe" /\ lastCall.result
        /\ TagsOf(lastCall.before, lastCall.user) = {lastCall.tag})
          => lastCall.user \notin DOMAIN subscriptions
    /\ lastCall.call = "getUserSubscriptions" =>
          /\ lastCall.user \notin DOMAIN subscriptions => lastCall.list = <<>>
          /\ lastCall.user \in DOMAIN subscriptions
                => lastCall.list = subscriptions[lastCall.user]

(* a user whose only tag was just removed was asked for: the answer is the *)
(* empty list, while the other user keeps two tags                         *)
C28_Witness ==
    /\ lastCall.call = "getUserSubscriptions"
    /\ lastCall.list = <<>>
    /\ lastCall.prior.call = "unsubscribe"
    /\ lastCall.prior.result
    /\ lastCall.prior.user = lastCall.user
    /\ lastCall.user \notin DOMAIN subscriptions
    /\ \E userId \in DOMAIN subscriptions : Len(subscriptions[userId]) = 2

(* C29: subscribe returns true exactly when the user did not have the tag,  *)
(* unsubscribe exactly when the user had it; a call that returns false      *)
(* changes neither the map nor the file; and an unsubscribe that follows    *)
(* the subscribe of the same tag to the same user, who did not have it,     *)
(* leaves the map as it was before the two calls.                           *)
C29_RealChangesOnly ==
    /\ lastCall.call = "subscribe" =>
          lastCall.result = (lastCall.tag \notin TagsOf(lastCall.before, lastCall.user))
    /\ lastCall.call = "unsubscribe" =>
          lastCall.result = (lastCall.tag \in TagsOf(lastCall.before, lastCall.user))
    /\ (lastCall.call \in {"subscribe", "unsubscribe"} /\ ~lastCall.result) =>
          /\ subscriptions = lastCall.before
          /\ subscriptionsFile = lastCall.fileBefore
    /\ (/\ lastCall.call = "unsubscribe"
        /\ lastCall.prior.call = "subscribe" /\ lastCall.prior.result
        /\ lastCall.prior.user = lastCall.user
        /\ lastCall.prior.tag = lastCall.tag)
          => subscriptions = lastCall.prior.before

(* a subscribe and the unsubscribe of the same tag have brought back a map *)
(* in which the user has another tag, and the call before them was refused *)
C29_Witness ==
    /\ lastCall.call = "unsubscribe"
    /\ lastCall.result
    /\ lastCall.prior.call = "subscribe"
    /\ lastCall.prior.result
    /\ lastCall.prior.user = lastCall.user
    /\ lastCall.prior.tag = lastCall.tag
    /\ lastCall.user \in DOMAIN subscriptions
    /\ subscriptions = lastCall.prior.before
    /\ subscriptionsFile = FileOf(SubscriptionsText(subscriptions))

(* a subscribe of a tag the user already has has returned false *)
C29_WitnessRefused ==
    /\ lastCall.call = "subscribe"
    /\ ~lastCall.result
    /\ lastCall.tag \in TagsOf(subscriptions, lastCall.user)
    /\ subscriptionsFile.exists

=============================================================================
